---- MODULE Spec2Model ----
(***************************************************************************)
(* A model of the LegalDoc document pipeline: text extraction and          *)
(* normalisation (document_processor.py), the structuring of the AI reply  *)
(* (gemini_analyzer.py), the document table (database.py) and the upload,  *)
(* analysis and delete handlers of the Streamlit pages (app.py).           *)
(*                                                                         *)
(* A Python str is a sequence of code points (naturals), a bytes object a  *)
(* sequence of naturals below 256.                                         *)
(***************************************************************************)
EXTENDS Integers, Sequences, FiniteSets, TLC

(***************************************************************************)
(* Characters                                                              *)
(***************************************************************************)

\* The characters the fixture texts are written in, with their code points.
UpperLetters ==
    << "A", "B", "C", "D", "E", "F", "G", "H", "I", "J", "K", "L", "M",
       "N", "O", "P", "Q", "R", "S", "T", "U", "V", "W", "X", "Y", "Z" >>
LowerLetters ==
    << "a", "b", "c", "d", "e", "f", "g", "h", "i", "j", "k", "l", "m",
       "n", "o", "p", "q", "r", "s", "t", "u", "v", "w", "x", "y", "z" >>
Digits == << "0", "1", "2", "3", "4", "5", "6", "7", "8", "9" >>

\* The position of c in the tuple t, 0 when it is not there.
IndexIn(t, c) ==
    IF \E i \in 1..Len(t) : t[i] = c
    THEN CHOOSE i \in 1..Len(t) : t[i] = c ELSE 0

\* ord(c) of a character the fixture texts use.
Ord(c) ==
    IF IndexIn(UpperLetters, c) > 0 THEN 64 + IndexIn(UpperLetters, c)
    ELSE IF IndexIn(LowerLetters, c) > 0 THEN 96 + IndexIn(LowerLetters, c)
    ELSE IF IndexIn(Digits, c) > 0 THEN 47 + IndexIn(Digits, c)
    ELSE CASE c = " " -> 32
           [] c = "#" -> 35
           [] c = "*" -> 42
           [] c = "," -> 44
           [] c = "-" -> 45
           [] c = "." -> 46
           [] c = ":" -> 58

\* The str whose characters are the one-character strings of the tuple t.
Str(t) == [i \in 1..Len(t) |-> Ord(t[i])]

NUL == 0
LF == 10
SPACE == 32
BULLET == 8226
REPLACEMENT_CHAR == 65533

\* str.isspace() of one character: the Unicode whitespace of Python 3.
IsSpace(c) ==
    \/ c \in 9..13
    \/ c \in 28..32
    \/ c \in {133, 160, 5760, 8232, 8233, 8239, 8287, 12288}
    \/ c \in 8192..8202

\* str.isdigit() of one character, over the characters the model uses: the
\* ASCII decimal digits, and SUPERSCRIPT TWO, a digit that is not a decimal.
IsDigit(c) == c \in 48..57 \/ c = 178

\* str.isupper() of one character, over ASCII and Latin-1.
IsUpper(c) == c \in 65..90 \/ c \in 192..214 \/ c \in 216..222

\* str.upper() and str.lower() of one character, over ASCII.
UpperChar(c) == IF c \in 97..122 THEN c - 32 ELSE c
LowerChar(c) == IF c \in 65..90 THEN c + 32 ELSE c

(***************************************************************************)
(* Strings                                                                 *)
(***************************************************************************)

Upper(s) == [i \in 1..Len(s) |-> UpperChar(s[i])]
Lower(s) == [i \in 1..Len(s) |-> LowerChar(s[i])]

\* sub in s
Contains(s, sub) ==
    \E i \in 0..(Len(s) - Len(sub)) :
        \A j \in 1..Len(sub) : s[i + j] = sub[j]

\* c in s, for one character
HasChar(s, c) == \E i \in 1..Len(s) : s[i] = c

\* s.lstrip(chars) for a set of characters
LStripSet(s, chars) ==
    LET keep == {i \in 1..Len(s) : s[i] \notin chars}
    IN  IF keep = {} THEN << >>
        ELSE SubSeq(s, CHOOSE i \in keep : \A j \in keep : i <= j, Len(s))

\* s.strip()
Strip(s) ==
    LET keep == {i \in 1..Len(s) : ~IsSpace(s[i])}
    IN  IF keep = {} THEN << >>
        ELSE SubSeq(s, CHOOSE i \in keep : \A j \in keep : i <= j,
                       CHOOSE i \in keep : \A j \in keep : i >= j)

\* s.replace(c, "") for one character
RECURSIVE RemoveChar(_, _)
RemoveChar(s, c) ==
    IF s = << >> THEN << >>
    ELSE IF Head(s) = c THEN RemoveChar(Tail(s), c)
    ELSE << Head(s) >> \o RemoveChar(Tail(s), c)

\* s.split(c) for one character: always at least one piece
RECURSIVE SplitOn(_, _)
SplitOn(s, c) ==
    LET hits == {i \in 1..Len(s) : s[i] = c}
    IN  IF hits = {} THEN << s >>
        ELSE LET k == CHOOSE i \in hits : \A j \in hits : i <= j
             IN  << SubSeq(s, 1, k - 1) >> \o SplitOn(SubSeq(s, k + 1, Len(s)), c)

\* s.split(): the maximal runs of non-whitespace characters. The text is
\* cut at the whitespace character nearest to its middle, so that the depth
\* of the evaluation grows with the logarithm of the number of words.
RECURSIVE SplitWhitespace(_)
SplitWhitespace(s) ==
    LET spaces == {i \in 1..Len(s) : IsSpace(s[i])}
        Off(i) == IF 2 * i >= Len(s) THEN 2 * i - Len(s) ELSE Len(s) - 2 * i
    IN  IF spaces = {} THEN (IF s = << >> THEN << >> ELSE << s >>)
        ELSE LET near == {i \in spaces : \A j \in spaces : Off(i) <= Off(j)}
                 m    == CHOOSE i \in near : \A j \in near : i <= j
             IN  SplitWhitespace(SubSeq(s, 1, m - 1))
                 \o SplitWhitespace(SubSeq(s, m + 1, Len(s)))

\* sep.join(parts) for a one-character separator
RECURSIVE Join(_, _)
Join(parts, sep) ==
    IF parts = << >> THEN << >>
    ELSE IF Len(parts) = 1 THEN parts[1]
    ELSE parts[1] \o << sep >> \o Join(Tail(parts), sep)

\* the concatenation of a sequence of strings
RECURSIVE Concat(_)
Concat(parts) ==
    IF parts = << >> THEN << >> ELSE Head(parts) \o Concat(Tail(parts))

(***************************************************************************)
(* bytes.decode                                                            *)
(***************************************************************************)

\* The number of bytes of the UTF-8 sequence a lead byte opens, 0 for a byte
\* that opens none (a continuation byte, C0, C1, F5..FF).
Utf8SeqLen(b) ==
    IF b <= 127 THEN 1
    ELSE IF b \in 194..223 THEN 2
    ELSE IF b \in 224..239 THEN 3
    ELSE IF b \in 240..244 THEN 4
    ELSE 0

\* The values the k-th byte (k >= 2) of a sequence opened by lead byte b may
\* take: the second byte excludes overlong forms, surrogates and code points
\* above U+10FFFF.
Utf8Allowed(b, k) ==
    IF k = 2 /\ b = 224 THEN 160..191
    ELSE IF k = 2 /\ b = 237 THEN 128..159
    ELSE IF k = 2 /\ b = 240 THEN 144..191
    ELSE IF k = 2 /\ b = 244 THEN 128..143
    ELSE 128..191

\* The number of bytes at position i that form a valid prefix of a UTF-8
\* sequence (at least 1).
Utf8PrefixLen(bs, i) ==
    LET n   == Utf8SeqLen(bs[i])
        bad == {k \in 2..n : i + k - 1 > Len(bs) \/ bs[i + k - 1] \notin Utf8Allowed(bs[i], k)}
    IN  IF n = 0 THEN 1
        ELSE IF bad = {} THEN n
        ELSE (CHOOSE k \in bad : \A j \in bad : k <= j) - 1

\* Whether a whole UTF-8 sequence stands at position i.
Utf8ValidAt(bs, i) ==
    Utf8SeqLen(bs[i]) > 0 /\ Utf8PrefixLen(bs, i) = Utf8SeqLen(bs[i])

\* The code point of the whole UTF-8 sequence at position i.
Utf8CodePoint(bs, i) ==
    LET n == Utf8SeqLen(bs[i])
    IN  IF n = 1 THEN bs[i]
        ELSE IF n = 2 THEN (bs[i] - 192) * 64 + (bs[i + 1] - 128)
        ELSE IF n = 3 THEN (bs[i] - 224) * 4096 + (bs[i + 1] - 128) * 64 + (bs[i + 2] - 128)
        ELSE (bs[i] - 240) * 262144 + (bs[i + 1] - 128) * 4096
             + (bs[i + 2] - 128) * 64 + (bs[i + 3] - 128)

\* Whether bs.decode('utf-8') succeeds.
RECURSIVE Utf8Valid(_)
Utf8Valid(bs) ==
    IF bs = << >> THEN TRUE
    ELSE Utf8ValidAt(bs, 1) /\ Utf8Valid(SubSeq(bs, Utf8SeqLen(bs[1]) + 1, Len(bs)))

\* bs.decode('utf-8', errors=errors): every maximal invalid part becomes one
\* U+FFFD under errors='replace'; it is only used on valid input otherwise.
RECURSIVE Utf8Decode(_, _)
Utf8Decode(bs, errors) ==
    IF bs = << >> THEN << >>
    ELSE IF Utf8ValidAt(bs, 1)
    THEN << Utf8CodePoint(bs, 1) >>
         \o Utf8Decode(SubSeq(bs, Utf8SeqLen(bs[1]) + 1, Len(bs)), errors)
    ELSE (IF errors = "replace" THEN << REPLACEMENT_CHAR >> ELSE << >>)
         \o Utf8Decode(SubSeq(bs, Utf8PrefixLen(bs, 1) + 1, Len(bs)), errors)

\* The bytes 80..9F of cp1252 (index byte - 127); 0 marks the five bytes the
\* codec leaves undefined.
Cp1252High ==
    << 8364, 0, 8218, 402, 8222, 8230, 8224, 8225, 710, 8240, 352, 8249, 338,
       0, 381, 0, 0, 8216, 8217, 8220, 8221, 8226, 8211, 8212, 732, 8482,
       353, 8250, 339, 0, 382, 376 >>

Cp1252Char(b) == IF b \in 128..159 THEN Cp1252High[b - 127] ELSE b

\* Whether bs.decode(encoding) succeeds (no UnicodeDecodeError).
CanDecode(bs, encoding) ==
    CASE encoding = "utf-8" -> Utf8Valid(bs)
      [] encoding \in {"latin-1", "iso-8859-1"} -> TRUE
      [] encoding = "cp1252" ->
            \A i \in 1..Len(bs) : bs[i] \in 128..159 => Cp1252High[bs[i] - 127] # 0

\* bs.decode(encoding), where it succeeds.
Decode(bs, encoding) ==
    CASE encoding = "utf-8" -> Utf8Decode(bs, "strict")
      [] encoding \in {"latin-1", "iso-8859-1"} -> bs
      [] encoding = "cp1252" -> [i \in 1..Len(bs) |-> Cp1252Char(bs[i])]

(***************************************************************************)
(* document_processor.py                                                   *)
(*                                                                         *)
(* An uploaded file is a record: name, type (the declared media type),    *)
(* size (uploaded_file.size, in bytes), data (the bytes read() returns),   *)
(* and what the PDF or DOCX library makes of the data: corrupt (the        *)
(* library raises), pages (the text of each PDF page), paragraphs and      *)
(* tables (a table is a sequence of rows, a row a sequence of cell texts). *)
(***************************************************************************)

PDF == "application/pdf"
DOCX == "application/vnd.openxmlformats-officedocument.wordprocessingml.document"
MSWORD == "application/msword"
TXT == "text/plain"
PNG == "image/png"

\* What a format extractor hands back: the text, or the exception it raised.
Extracted(text) == [ok |-> TRUE, text |-> text]
Failed == [ok |-> FALSE, text |-> << >>]

\* The text of the pages, each followed by a newline, returned as it is.
_extract_from_pdf_untrimmed(f) ==
    IF f.corrupt THEN Failed
    ELSE Extracted(Concat([i \in 1..Len(f.pages) |-> f.pages[i] \o << LF >>]))

\* text += page.extract_text() + "\n" for every page, then strip
_extract_from_pdf(f) ==
    IF f.corrupt THEN Failed
    ELSE Extracted(Strip(Concat([i \in 1..Len(f.pages) |-> f.pages[i] \o << LF >>])))

\* One table row: every cell's text followed by a space, then a newline.
RowText(row) == Concat([i \in 1..Len(row) |-> row[i] \o << SPACE >>]) \o << LF >>
TableText(table) == Concat([i \in 1..Len(table) |-> RowText(table[i])])

\* The paragraphs, each followed by a newline, then the tables, then strip
_extract_from_docx(f) ==
    IF f.corrupt THEN Failed
    ELSE Extracted(Strip(
            Concat([i \in 1..Len(f.paragraphs) |-> f.paragraphs[i] \o << LF >>])
            \o Concat([i \in 1..Len(f.tables) |-> TableText(f.tables[i])])))

\* A list of encodings without the two names of Latin-1.
EncodingsWithoutLatin1 == << "utf-8", "cp1252" >>

\* The encodings tried in order.
Encodings == << "utf-8", "latin-1", "cp1252", "iso-8859-1" >>

\* The first encoding that decodes the bytes, else UTF-8 with replacement;
\* read() of an uploaded file always returns bytes.
_extract_from_txt(f) ==
    LET ok == {i \in 1..Len(Encodings) : CanDecode(f.data, Encodings[i])}
    IN  IF ok # {}
        THEN Extracted(Strip(Decode(f.data,
                 Encodings[CHOOSE i \in ok : \A j \in ok : i <= j])))
        ELSE Extracted(Strip(Utf8Decode(f.data, "replace")))

\* A dispatch that treats every unrecognised type as plain text.
ExtractorForDefaultTxt(file_type) ==
    IF file_type = PDF THEN "pdf"
    ELSE IF file_type \in {DOCX, MSWORD} THEN "docx"
    ELSE "txt"

\* The extractor extract_text dispatches to, "none" for an unsupported type.
ExtractorFor(file_type) ==
    IF file_type = PDF THEN "pdf"
    ELSE IF file_type \in {DOCX, MSWORD} THEN "docx"
    ELSE IF file_type = TXT THEN "txt"
    ELSE "none"

\* extract_text: the value returned to the caller (returned), and what went on
\* inside: the extractor that ran, the bytes read from the upload, and the
\* exception that was raised and caught (ValueError for an unsupported type,
\* the extractor's Exception for a parse error), which st.error displays.
extract_text(f) ==
    LET which == ExtractorFor(f.type)
        got   == CASE which = "pdf"  -> _extract_from_pdf(f)
                   [] which = "docx" -> _extract_from_docx(f)
                   [] which = "txt"  -> _extract_from_txt(f)
                   [] which = "none" -> Failed
    IN  [ returned   |-> IF got.ok THEN got.text ELSE << >>,
          raised     |-> IF which = "none" THEN "UnsupportedFormat"
                         ELSE IF ~got.ok THEN "ExtractionFailure"
                         ELSE "none",
          extractor  |-> which,
          bytes_read |-> IF which = "none" THEN 0 ELSE Len(f.data) ]

\* The size ceiling of validate_file, in MB.
max_size_mb == 50
BytesPerMB == 1048576

supported_types == {PDF, DOCX, MSWORD, TXT}

\* validate_file: (valid, message kind); it reads the type and the size only.
validate_file(f) ==
    IF f.type \notin supported_types THEN [valid |-> FALSE, message |-> "Unsupported file type"]
    ELSE IF f.size > max_size_mb * BytesPerMB THEN [valid |-> FALSE, message |-> "File size exceeds limit"]
    ELSE [valid |-> TRUE, message |-> "File is valid"]

\* preprocess_text
preprocess_text(text) ==
    IF text = << >> THEN << >>
    ELSE Strip(RemoveChar(RemoveChar(Join(SplitWhitespace(text), SPACE), NUL),
                          REPLACEMENT_CHAR))

(***************************************************************************)
(* gemini_analyzer.py                                                      *)
(*                                                                         *)
(* A dict is a function from its keys (strings) to its values; a missing   *)
(* key is a key outside its domain.                                        *)
(***************************************************************************)

EmptyDict == [k \in {} |-> 0]

\* d with d[key] = value set or overwritten
DictSet(d, key, value) == (key :> value) @@ d

\* str(n) for a natural number
RECURSIVE IntToStr(_)
IntToStr(n) ==
    IF n < 10 THEN << 48 + n >> ELSE IntToStr(n \div 10) \o << 48 + (n % 10) >>

W_minutes == Str(<< " ", "m", "i", "n", "u", "t", "e", "s" >>)

\* An estimator that leaves out the floor of 1: max(1, ...) dropped.
_generate_basic_insights_without_floor(text) ==
    LET word_count == Len(SplitWhitespace(text))
        char_count == Len(text)
        uppercase  == Cardinality({i \in 1..Len(text) : IsUpper(text[i])})
        raw        == (word_count \div 500) + (uppercase \div 100)
        complexity_score == IF raw < 10 THEN raw ELSE 10
    IN  [ word_count       |-> word_count,
          character_count  |-> char_count,
          complexity_score |-> complexity_score,
          complexity_level |-> IF complexity_score <= 3 THEN "Low"
                               ELSE IF complexity_score <= 7 THEN "Medium"
                               ELSE "High",
          estimated_reading_time |->
              IntToStr((word_count \div 200) + 1)
              \o W_minutes ]

\* _generate_basic_insights
_generate_basic_insights(text) ==
    LET word_count == Len(SplitWhitespace(text))
        char_count == Len(text)
        uppercase  == Cardinality({i \in 1..Len(text) : IsUpper(text[i])})
        raw        == (word_count \div 500) + (uppercase \div 100)
        floor      == IF raw > 1 THEN raw ELSE 1
        complexity_score == IF floor < 10 THEN floor ELSE 10
    IN  [ word_count       |-> word_count,
          character_count  |-> char_count,
          complexity_score |-> complexity_score,
          complexity_level |-> IF complexity_score <= 3 THEN "Low"
                               ELSE IF complexity_score <= 7 THEN "Medium"
                               ELSE "High",
          estimated_reading_time |->
              IntToStr((word_count \div 200) + 1)
              \o W_minutes ]

\* The characters lstrip('-•* 0123456789.') removes.
BulletChars == {45, BULLET, 42, SPACE, 46} \cup (48..57)

\* One line of a key-points or recommendations section, as appended to the
\* list: the leading bullet run stripped when the line starts with a bullet
\* marker or a digit.
BulletItem(line) ==
    IF line[1] \in {45, BULLET, 42} \/ IsDigit(line[1])
    THEN LStripSet(line, BulletChars)
    ELSE line

\* [p.strip() for p in points if p.strip()]
RECURSIVE StripNonEmpty(_)
StripNonEmpty(points) ==
    IF points = << >> THEN << >>
    ELSE (IF Strip(Head(points)) = << >> THEN << >> ELSE << Strip(Head(points)) >>)
         \o StripNonEmpty(Tail(points))

\* The list a key-points or recommendations section yields.
BulletList(content) ==
    StripNonEmpty([i \in 1..Len(content) |-> BulletItem(content[i])])

\* Whether int(char) raises ValueError: char.isdigit() holds of characters
\* that are no decimal digits.
IntRaises(c) == c \notin 48..57

\* The first character of the line that isdigit() accepts.
FirstDigit(line) ==
    line[CHOOSE i \in 1..Len(line) :
            IsDigit(line[i]) /\ \A j \in 1..(i - 1) : ~IsDigit(line[j])]

W_complexity == Str(<< "c", "o", "m", "p", "l", "e", "x", "i", "t", "y" >>)
W_legal_area == Str(<< "l", "e", "g", "a", "l", " ", "a", "r", "e", "a" >>)
W_area == Str(<< "a", "r", "e", "a" >>)
W_sentiment == Str(<< "s", "e", "n", "t", "i", "m", "e", "n", "t" >>)
W_tone == Str(<< "t", "o", "n", "e" >>)
W_Neutral == Str(<< "N", "e", "u", "t", "r", "a", "l" >>)

\* Whether the line sets complexity_score.
ComplexitySignal(line) ==
    Contains(Lower(line), W_complexity) /\ \E i \in 1..Len(line) : IsDigit(line[i])

\* The insights dict after one line of the insights section; raised when
\* int() of the first digit raises.
InsightLine(acc, line) ==
    LET raises == ComplexitySignal(line) /\ IntRaises(FirstDigit(line))
        i1 == IF ComplexitySignal(line) /\ ~raises
              THEN DictSet(acc.insights, "complexity_score", FirstDigit(line) - 48)
              ELSE acc.insights
        i2 == IF Contains(Lower(line), W_legal_area) \/ Contains(Lower(line), W_area)
              THEN DictSet(i1, "legal_areas", StripNonEmpty(SplitOn(line, 44)))
              ELSE i1
        i3 == IF Contains(Lower(line), W_sentiment) \/ Contains(Lower(line), W_tone)
              THEN DictSet(i2, "sentiment",
                           IF HasChar(line, 58)
                           THEN LET parts == SplitOn(line, 58)
                                IN  Strip(parts[Len(parts)])
                           ELSE W_Neutral)
              ELSE i2
    IN  IF acc.raised \/ raises THEN [raised |-> TRUE, insights |-> acc.insights]
        ELSE [raised |-> FALSE, insights |-> i3]

\* The loop over the lines of the insights section.
RECURSIVE InsightLines(_, _)
InsightLines(acc, content) ==
    IF content = << >> THEN acc
    ELSE InsightLines(InsightLine(acc, Head(content)), Tail(content))

\* _process_section: the result dict after the section is stored, or raised.
_process_section(result, section, content) ==
    LET content_text == Strip(Join(content, LF))
    IN  CASE section = "summary" ->
                [raised |-> FALSE, result |-> DictSet(result, "summary", content_text)]
          [] section = "key_points" ->
                [raised |-> FALSE, result |-> DictSet(result, "key_points", BulletList(content))]
          [] section = "insights" ->
                LET got == InsightLines([raised |-> FALSE, insights |-> EmptyDict], content)
                IN  IF got.raised THEN [raised |-> TRUE, result |-> result]
                    ELSE [raised |-> FALSE, result |-> DictSet(result, "insights", got.insights)]
          [] section = "simplified" ->
                [raised |-> FALSE,
                 result |-> DictSet(result, "simplified_explanation", content_text)]
          [] section = "recommendations" ->
                [raised |-> FALSE,
                 result |-> DictSet(result, "recommendations", BulletList(content))]

\* The header synonyms of each section, in the order the checks are made.
Sections == << "summary", "key_points", "insights", "simplified", "recommendations" >>

H_summary ==
    { Str(<< "S", "U", "M", "M", "A", "R", "Y" >>),
      Str(<< "D", "O", "C", "U", "M", "E", "N", "T", " ",
             "S", "U", "M", "M", "A", "R", "Y" >>) }
H_key_points ==
    { Str(<< "K", "E", "Y", " ", "P", "O", "I", "N", "T", "S" >>),
      Str(<< "M", "A", "I", "N", " ", "P", "O", "I", "N", "T", "S" >>) }
H_insights ==
    { Str(<< "I", "N", "S", "I", "G", "H", "T", "S" >>),
      Str(<< "L", "E", "G", "A", "L", " ", "I", "N", "S", "I", "G", "H", "T", "S" >>) }
H_simplified ==
    { Str(<< "S", "I", "M", "P", "L", "I", "F", "I", "E", "D" >>),
      Str(<< "P", "L", "A", "I", "N", " ", "E", "N", "G", "L", "I", "S", "H" >>) }
H_recommendations ==
    { Str(<< "R", "E", "C", "O", "M", "M", "E", "N", "D", "A", "T", "I", "O", "N", "S" >>),
      Str(<< "S", "U", "G", "G", "E", "S", "T", "I", "O", "N", "S" >>) }

Headers(section) ==
    CASE section = "summary" -> H_summary
      [] section = "key_points" -> H_key_points
      [] section = "insights" -> H_insights
      [] section = "simplified" -> H_simplified
      [] section = "recommendations" -> H_recommendations

\* any(header in line.upper() for header in [...])
IsHeaderOf(line, section) ==
    LET upper == Upper(line)
    IN  \E h \in Headers(section) : Contains(upper, h)

\* The section whose branch of the if/elif chain a stripped line takes,
\* "none" for a line that is no header.
HeaderMatch(line) ==
    LET hit == {i \in 1..Len(Sections) : IsHeaderOf(line, Sections[i])}
    IN  IF hit = {} THEN "none"
        ELSE Sections[CHOOSE i \in hit : \A j \in hit : i <= j]

\* The result dict _parse_analysis_response starts from.
InitialResult(response_text) ==
    [ summary                |-> << >>,
      key_points             |-> << >>,
      insights               |-> EmptyDict,
      simplified_explanation |-> << >>,
      recommendations        |-> << >>,
      raw_analysis           |-> response_text ]

\* if current_section and current_content: self._process_section(...)
Flush(st) ==
    IF st.current_section # "none" /\ st.current_content # << >>
    THEN _process_section(st.result, st.current_section, st.current_content)
    ELSE [raised |-> FALSE, result |-> st.result]

\* A loop that also buffers the header line itself into the section it opens.
ParseLineKeepingHeader(st, raw_line) ==
    LET line   == Strip(raw_line)
        header == HeaderMatch(line)
    IN  IF st.raised THEN st
        ELSE IF header # "none"
        THEN [ raised          |-> Flush(st).raised,
               result          |-> Flush(st).result,
               current_section |-> header,
               current_content |-> << line >> ]
        ELSE IF line # << >> /\ line[1] # 35
        THEN [st EXCEPT !.current_content = Append(@, line)]
        ELSE st

\* One iteration of the loop over the lines of the reply.
ParseLine(st, raw_line) ==
    LET line   == Strip(raw_line)
        header == HeaderMatch(line)
    IN  IF st.raised THEN st
        ELSE IF header # "none"
        THEN [ raised          |-> Flush(st).raised,
               result          |-> Flush(st).result,
               current_section |-> header,
               current_content |-> << >> ]
        ELSE IF line # << >> /\ line[1] # 35
        THEN [st EXCEPT !.current_content = Append(@, line)]
        ELSE st

RECURSIVE ParseLines(_, _)
ParseLines(st, lines) ==
    IF lines = << >> THEN st
    ELSE ParseLines(ParseLine(st, Head(lines)), Tail(lines))

\* A Structurer whose fallback insights are computed over the reply.
_parse_analysis_response_estimating_reply(response_text, original_text) ==
    LET st   == ParseLines([ raised          |-> FALSE,
                             result          |-> InitialResult(response_text),
                             current_section |-> "none",
                             current_content |-> << >> ],
                           SplitOn(response_text, LF))
        last == Flush(st)
    IN  IF st.raised \/ last.raised THEN [raised |-> TRUE, result |-> EmptyDict]
        ELSE IF DOMAIN last.result.insights = {}
        THEN [ raised |-> FALSE,
               result |-> DictSet(last.result, "insights",
                                  _generate_basic_insights(response_text)) ]
        ELSE [raised |-> FALSE, result |-> last.result]

\* _parse_analysis_response: the structured record, or raised when int() of
\* a complexity digit raised.
_parse_analysis_response(response_text, original_text) ==
    LET st   == ParseLines([ raised          |-> FALSE,
                             result          |-> InitialResult(response_text),
                             current_section |-> "none",
                             current_content |-> << >> ],
                           SplitOn(response_text, LF))
        last == Flush(st)
    IN  IF st.raised \/ last.raised THEN [raised |-> TRUE, result |-> EmptyDict]
        ELSE IF DOMAIN last.result.insights = {}
        THEN [ raised |-> FALSE,
               result |-> DictSet(last.result, "insights",
                                  _generate_basic_insights(original_text)) ]
        ELSE [raised |-> FALSE, result |-> last.result]

\* The values current_section takes in the loop of _parse_analysis_response:
\* entry i is the pointer after the iteration on line i; the iterations an
\* exception cuts off have no entry.
RECURSIVE CurrentSections(_, _)
CurrentSections(st, lines) ==
    IF lines = << >> THEN << >>
    ELSE LET after == ParseLine(st, Head(lines))
         IN  IF after.raised THEN << >>
             ELSE << after.current_section >> \o CurrentSections(after, Tail(lines))

\* The pointer values over the whole reply.
current_section_trace(response_text) ==
    CurrentSections([ raised          |-> FALSE,
                      result          |-> InitialResult(response_text),
                      current_section |-> "none",
                      current_content |-> << >> ],
                    SplitOn(response_text, LF))

\* The summary of the dict analyze_document returns on an exception.
FailedSummary ==
    Str(<< "A", "n", "a", "l", "y", "s", "i", "s", " ", "f", "a", "i", "l", "e", "d", " ",
           "d", "u", "e", " ", "t", "o", " ", "a", "n", " ", "e", "r", "r", "o", "r", "." >>)

\* The dict of the except branch of analyze_document.
ErrorResult(message) ==
    [ error           |-> message,
      summary         |-> FailedSummary,
      key_points      |-> << >>,
      insights        |-> EmptyDict,
      recommendations |-> << >> ]

\* The number of characters of the document text the prompt holds.
TextLimit == 8000

\* The sections the prompt asks for, in the order it lists them.
RequestedSections ==
    << "DOCUMENT SUMMARY", "KEY POINTS", "LEGAL INSIGHTS", "SIMPLIFIED EXPLANATION",
       "RECOMMENDATIONS" >>

\* The focus block appended for the analysis type.
SpecialFocus(analysis_type) ==
    IF analysis_type = "Risk Assessment"
    THEN << "Potential legal risks", "Liability issues", "Compliance requirements",
            "Financial obligations", "Termination clauses" >>
    ELSE IF analysis_type = "Key Points Extraction"
    THEN << "Critical clauses and provisions", "Rights and obligations",
            "Important definitions", "Performance requirements" >>
    ELSE << >>

\* text[:n]
Prefix(text, n) == SubSeq(text, 1, IF Len(text) < n THEN Len(text) ELSE n)

\* _create_analysis_prompt: the prompt is its fixed wording around the
\* interpolated values; it is modelled by the values that vary.
_create_analysis_prompt(text, analysis_type, complexity_level) ==
    [ analysis_type |-> analysis_type,
      detail_level  |-> complexity_level,
      document_text |-> Prefix(text, TextLimit),
      sections      |-> RequestedSections,
      special_focus |-> SpecialFocus(analysis_type) ]

\* What generate_content does: it raises, or it returns a response whose
\* text is None or a str (possibly empty).
ApiRaises == [kind |-> "raise", text |-> << >>]
ApiNone == [kind |-> "none", text |-> << >>]
ApiText(text) == [kind |-> "text", text |-> text]

\* analyze_document, given what generate_content did.
analyze_document(text, analysis_type, complexity_level, response) ==
    IF response.kind = "raise" THEN ErrorResult("generate_content raised")
    ELSE IF response.kind = "none" \/ response.text = << >>
    THEN ErrorResult("Empty response from Gemini API")
    ELSE LET parsed == _parse_analysis_response(response.text, text)
         IN  IF parsed.raised
             THEN ErrorResult("invalid literal for int() with base 10")
             ELSE parsed.result

(***************************************************************************)
(* database.py: the documents table                                        *)
(*                                                                         *)
(* The table is a function from the ids of its rows to the rows. The       *)
(* analysis column holds NULL or a JSON text; a JSON text is modelled by   *)
(* the value it parses to (the dicts stored hold strings, integers,        *)
(* booleans, lists and dicts with string keys, which json.loads gives back *)
(* as json.dumps got them).                                                *)
(***************************************************************************)

Null == [null |-> TRUE]
json_dumps(value) == [json |-> value]
json_loads(column) == column.json

\* An INSERT whose values are in the order of store_document's parameters
\* (filename, content, analysis, file_type), not of the column list.
store_document_positional(table, next, filename, content, analysis, file_type, upload_date) ==
    (next :> [ filename    |-> filename,
               file_type   |-> content,
               upload_date |-> upload_date,
               content     |-> file_type,
               analysis    |-> IF DOMAIN analysis # {} THEN json_dumps(analysis) ELSE Null ])
    @@ table

\* An INSERT into a table whose key is a plain INTEGER PRIMARY KEY: the new
\* row's id is one more than the largest id in the table now.
store_document_max_rowid(table, next, filename, content, analysis, file_type, upload_date) ==
    LET id == IF DOMAIN table = {} THEN 1
              ELSE 1 + CHOOSE m \in DOMAIN table : \A k \in DOMAIN table : k <= m
    IN  (id :> [ filename    |-> filename,
                 file_type   |-> file_type,
                 upload_date |-> upload_date,
                 content     |-> content,
                 analysis    |-> IF DOMAIN analysis # {} THEN json_dumps(analysis) ELSE Null ])
        @@ table

\* store_document: the table after the INSERT; the new row's id is next_id,
\* the AUTOINCREMENT key (one more than the largest id ever assigned).
store_document(table, next, filename, content, analysis, file_type, upload_date) ==
    (next :> [ filename    |-> filename,
               file_type   |-> file_type,
               upload_date |-> upload_date,
               content     |-> content,
               analysis    |-> IF DOMAIN analysis # {} THEN json_dumps(analysis) ELSE Null ])
    @@ table

\* get_all_documents, as the set of the rows with their ids.
get_all_documents(table) == {<< id, table[id] >> : id \in DOMAIN table}

\* get_document_by_id: the row, or Null for fetchone()'s None.
get_document_by_id(table, doc_id) ==
    IF doc_id \in DOMAIN table THEN table[doc_id] ELSE Null

\* A delete that reports success whenever the statement ran, whatever the
\* number of rows it removed.
delete_document_ignoring_rowcount(table, doc_id) ==
    [ table   |-> [id \in DOMAIN table \ {doc_id} |-> table[id]],
      deleted |-> TRUE ]

\* delete_document: the table after the DELETE, and rowcount > 0.
delete_document(table, doc_id) ==
    [ table   |-> [id \in DOMAIN table \ {doc_id} |-> table[id]],
      deleted |-> doc_id \in DOMAIN table ]

(***************************************************************************)
(* app.py                                                                  *)
(***************************************************************************)

\* The analysis a document is stored with at upload.
UploadedStatus == [status |-> "uploaded", analyzed |-> FALSE]

\* analysis_data.get("analyzed", False) of a row's analysis column, False
\* for a NULL column.
IsAnalyzed(row) ==
    /\ row.analysis # Null
    /\ "analyzed" \in DOMAIN json_loads(row.analysis)
    /\ json_loads(row.analysis)["analyzed"]

\* The key_points of a row's analysis, [] when it has none.
KeyPointsOf(row) ==
    IF row.analysis # Null /\ "key_points" \in DOMAIN json_loads(row.analysis)
    THEN json_loads(row.analysis)["key_points"]
    ELSE << >>

\* The ids offered for selection in an analysis mode: the unanalyzed
\* documents in mode "new", all documents in mode "all".
available_docs(table, mode) ==
    IF mode = "new" THEN {id \in DOMAIN table : ~IsAnalyzed(table[id])}
    ELSE DOMAIN table

\* A handler that marks only results without an error as analyzed.
MarkAnalyzedUnlessError(analysis_result, analysis_date, analysis_type, complexity_level, advanced_options) ==
    DictSet(DictSet(DictSet(DictSet(DictSet(analysis_result,
        "analyzed", "error" \notin DOMAIN analysis_result),
        "analysis_date", analysis_date),
        "analysis_type", analysis_type),
        "complexity_level", complexity_level),
        "advanced_options", advanced_options)

\* The bookkeeping fields the Analyze handler adds to the analyzer's result.
MarkAnalyzed(analysis_result, analysis_date, analysis_type, complexity_level, advanced_options) ==
    DictSet(DictSet(DictSet(DictSet(DictSet(analysis_result,
        "analyzed", TRUE),
        "analysis_date", analysis_date),
        "analysis_type", analysis_type),
        "complexity_level", complexity_level),
        "advanced_options", advanced_options)

\* An update that merges the new result into the stored one: a list the new
\* result leaves empty keeps its stored value.
UpdateAnalysisMerging(table, doc_id, analysis_result) ==
    [id \in DOMAIN table |->
        IF id = doc_id
        THEN [table[id] EXCEPT !.analysis =
                json_dumps(IF analysis_result["key_points"] = << >>
                           THEN DictSet(analysis_result, "key_points", KeyPointsOf(table[id]))
                           ELSE analysis_result)]
        ELSE table[id]]

\* A write that inserts the row when no row has the id (INSERT OR REPLACE).
UpdateAnalysisOrInsert(table, doc_id, analysis_result) ==
    [id \in DOMAIN table \cup {doc_id} |->
        IF id = doc_id
        THEN [ filename    |-> IF id \in DOMAIN table THEN table[id].filename ELSE Null,
               file_type   |-> IF id \in DOMAIN table THEN table[id].file_type ELSE Null,
               upload_date |-> IF id \in DOMAIN table THEN table[id].upload_date ELSE Null,
               content     |-> IF id \in DOMAIN table THEN table[id].content ELSE Null,
               analysis    |-> json_dumps(analysis_result) ]
        ELSE table[id]]

\* UPDATE documents SET analysis = ? WHERE id = ?
UpdateAnalysis(table, doc_id, analysis_result) ==
    [id \in DOMAIN table |->
        IF id = doc_id
        THEN [table[id] EXCEPT !.analysis = json_dumps(analysis_result)]
        ELSE table[id]]

(***************************************************************************)
(* Inputs                                                                  *)
(***************************************************************************)

\* The sequences over S of length at most n.
SeqsUpTo(S, n) == UNION {[1..k -> S] : k \in 0..n}

\* An uploaded file with the given type, size and bytes.
File(name, type, size, data) ==
    [ name |-> name, type |-> type, size |-> size, data |-> data,
      corrupt |-> FALSE, pages |-> << >>, paragraphs |-> << >>, tables |-> << >> ]

\* The longest plain-text upload, in bytes, and the bytes uploads are made
\* of: a space, "A", and C3 81 (the UTF-8 of U+00C1; either byte alone is
\* invalid UTF-8, and 81 is undefined in cp1252).
MaxBytesLen == 3
ByteAlphabet == {32, 65, 195, 129}

T_Ab == Str(<< "A", "b" >>)
T_Lease == Str(<< "L", "e", "a", "s", "e" >>)

TxtFiles == {File("notes.txt", TXT, Len(data), data) : data \in SeqsUpTo(ByteAlphabet, MaxBytesLen)}

\* A plain-text upload one byte over the ceiling (its bytes stand for the
\* first bytes of the file).
BigTxt == File("big.txt", TXT, max_size_mb * BytesPerMB + 1, T_Lease)
EdgeTxt == File("edge.txt", TXT, max_size_mb * BytesPerMB, T_Ab)
ImagePng == File("scan.png", PNG, 2, << 137, 80 >>)
JsonFile == File("data.json", "application/json", 2, << 123, 125 >>)
CorruptPdf == [File("bad.pdf", PDF, 4, << 37, 80, 68, 70 >>) EXCEPT !.corrupt = TRUE]
LeasePdf == [File("lease.pdf", PDF, 4, << 37, 80, 68, 70 >>) EXCEPT !.pages = << T_Lease, T_Ab >>]
ScannedPdf == [File("scanned.pdf", PDF, 4, << 37, 80, 68, 70 >>) EXCEPT !.pages = << << >> >>]
CorruptDocx == [File("bad.docx", DOCX, 2, << 80, 75 >>) EXCEPT !.corrupt = TRUE]
LeaseDocx ==
    [File("lease.docx", DOCX, 2, << 80, 75 >>) EXCEPT
        !.paragraphs = << T_Lease >>, !.tables = << << << T_Ab, T_Ab >> >> >>]
LeaseDoc == [File("lease.doc", MSWORD, 2, << 208, 207 >>) EXCEPT !.paragraphs = << T_Ab >>]

OtherFiles ==
    { BigTxt, EdgeTxt, ImagePng, JsonFile, CorruptPdf, LeasePdf, ScannedPdf,
      CorruptDocx, LeaseDocx, LeaseDoc }

Files == TxtFiles \cup OtherFiles

\* The texts given to preprocess_text: up to MaxTextLen characters among
\* "a", space, newline, NUL and U+FFFD.
MaxTextLen == 5
TextAlphabet == {97, SPACE, LF, NUL, REPLACEMENT_CHAR}
Texts == SeqsUpTo(TextAlphabet, MaxTextLen)

\* The lines replies are made of.
\* "Legal Insights: complexity 7, area Contract Law, Tort"
L_InsightsFixture ==
    Str(<< "L", "e", "g", "a", "l", " ", "I", "n", "s", "i", "g", "h", "t", "s",
           ":", " ", "c", "o", "m", "p", "l", "e", "x", "i", "t", "y", " ", "7",
           ",", " ", "a", "r", "e", "a", " ", "C", "o", "n", "t", "r", "a", "c",
           "t", " ", "L", "a", "w", ",", " ", "T", "o", "r", "t" >>)
\* "Legal Insights"
L_InsightsHeader ==
    Str(<< "L", "e", "g", "a", "l", " ", "I", "n", "s", "i", "g", "h", "t", "s" >>)
\* "complexity 7, area Contract Law, Tort"
L_InsightsBody ==
    Str(<< "c", "o", "m", "p", "l", "e", "x", "i", "t", "y", " ", "7", ",", " ",
           "a", "r", "e", "a", " ", "C", "o", "n", "t", "r", "a", "c", "t", " ",
           "L", "a", "w", ",", " ", "T", "o", "r", "t" >>)
\* "Document Summary"
L_SummaryHeader ==
    Str(<< "D", "o", "c", "u", "m", "e", "n", "t", " ", "S", "u", "m", "m", "a",
           "r", "y" >>)
\* "Lease of a flat"
L_SummaryBody ==
    Str(<< "L", "e", "a", "s", "e", " ", "o", "f", " ", "a", " ", "f", "l", "a",
           "t" >>)
\* "Key Points"
L_KeyPointsHeader ==
    Str(<< "K", "e", "y", " ", "P", "o", "i", "n", "t", "s" >>)
\* "- Rent is due monthly"
L_KeyPointsBody ==
    Str(<< "-", " ", "R", "e", "n", "t", " ", "i", "s", " ", "d", "u", "e", " ",
           "m", "o", "n", "t", "h", "l", "y" >>)

\* "Scale 0-10: complexity 7"
L_ComplexityScale ==
    Str(<< "S", "c", "a", "l", "e", " ", "0", "-", "1", "0", ":", " ", "c", "o",
           "m", "p", "l", "e", "x", "i", "t", "y", " ", "7" >>)
\* "complexity" followed by a space and U+00B2 (superscript two)
L_ComplexitySuperscript == W_complexity \o << SPACE, 178 >>
\* "Summary of Key Points"
L_SummaryOfKeyPoints ==
    Str(<< "S", "u", "m", "m", "a", "r", "y", " ", "o", "f", " ", "K", "e", "y",
           " ", "P", "o", "i", "n", "t", "s" >>)
\* "# Lease overview"
L_HashLine ==
    Str(<< "#", " ", "L", "e", "a", "s", "e", " ", "o", "v", "e", "r", "v", "i",
           "e", "w" >>)

ReplyLines ==
    { L_InsightsFixture, L_InsightsHeader, L_InsightsBody, L_SummaryHeader,
      L_SummaryBody, L_KeyPointsHeader, L_KeyPointsBody, L_ComplexityScale,
      L_ComplexitySuperscript, L_SummaryOfKeyPoints, L_HashLine }

\* The replies given to the Structurer: up to MaxReplyLines lines joined by
\* newlines; and the document texts they are replies about.
MaxReplyLines == 3
Replies == {Join(ls, LF) : ls \in SeqsUpTo(ReplyLines, MaxReplyLines)}
Originals == {T_Lease, << >>}

\* s repeated n times
Repeat(s, n) == [i \in 1..(n * Len(s)) |-> s[((i - 1) % Len(s)) + 1]]

\* The document texts given to the Fallback Estimator: every text of up to
\* MaxDocLen characters among "A", "a" and space, and long texts around the
\* steps of the score: n uppercase letters, and n one-letter words.
MaxDocLen == 4
DocAlphabet == {65, 97, SPACE}
UppercaseCounts == {99, 100, 399, 400, 799, 800, 1099, 1100}
WordCounts == {199, 200, 499, 500}
LongDocs ==
    {Repeat(<< 65 >>, n) : n \in UppercaseCounts}
        \cup {Repeat(<< 97, SPACE >>, n) : n \in WordCounts}
        \cup {Repeat(<< 65, SPACE >>, n) : n \in WordCounts}
DocTexts == SeqsUpTo(DocAlphabet, MaxDocLen) \cup LongDocs

\* The selections of the analysis page.
AllAnalysisTypes ==
    { "Comprehensive Analysis", "Summary Only", "Key Points Extraction",
      "Risk Assessment", "Legal Entity Extraction", "Contract Review",
      "Compliance Check" }
AllComplexityLevels == {"Basic", "Intermediate", "Advanced", "Expert"}

\* A text of n characters: "a"s ended by a "Z".
TextOfLen(n) == [i \in 1..n |-> IF i = n THEN 90 ELSE 97]

\* The document texts given to the Request Builder: short ones, and texts
\* from one character under the limit to MaxOverLimit characters over it.
MaxOverLimit == 1
PromptTexts ==
    {TextOfLen(n) : n \in {0, 1} \cup ((TextLimit - 1)..(TextLimit + MaxOverLimit))}

(***************************************************************************)
(* State                                                                   *)
(***************************************************************************)

VARIABLES
    docs,      \* the documents table: id -> row
    next_id,   \* the id the next INSERT gets (AUTOINCREMENT)
    session,   \* per browser session: where its Analyze handler stands
    uploaded,  \* history: id of a row -> what store_document was called with
    last_run,  \* history: id of a row -> the last analysis run completed on it
    shown,     \* the message the last run of a page ended with
    fn_pc,     \* the function specifications: the step reached
    fn_in,     \* the function specifications: the input
    fn_out     \* the function specifications: the output

vars == << docs, next_id, session, uploaded, last_run, shown, fn_pc, fn_in, fn_out >>

fn_vars == << fn_pc, fn_in, fn_out >>

\* The number of ids the store may assign.
MaxIds == 2

Sessions == {"s1", "s2"}

\* The files uploaded, the selections of the analysis page, what the AI
\* service does and the values of datetime.now(), in the specification of
\* the store.
UploadFiles == {LeasePdf, BigTxt, ImagePng, CorruptPdf, ScannedPdf}
AnalysisTypes == {"Comprehensive Analysis"}
ComplexityLevels == {"Intermediate"}
AdvancedOptions == {[entities |-> TRUE, risks |-> TRUE, timeline |-> FALSE]}
Modes == {"new", "all"}
UploadTimes == {1}
AnalysisTimes == {2}

R_Full ==
    Join(<< L_SummaryHeader, L_SummaryBody, L_KeyPointsHeader, L_KeyPointsBody,
            L_InsightsHeader, L_InsightsBody >>, LF)
R_SummaryOnly == Join(<< L_SummaryHeader, L_SummaryBody >>, LF)

Responses == {ApiRaises, ApiNone, ApiText(R_Full), ApiText(R_SummaryOnly)}

\* analyze_document over the inputs of the specification of the store,
\* computed once.
StoredTexts == {extract_text(f).returned : f \in UploadFiles}
AnalyzerResults ==
    [ text \in StoredTexts, analysis_type \in AnalysisTypes,
      complexity_level \in ComplexityLevels, response \in Responses |->
        analyze_document(text, analysis_type, complexity_level, response) ]

Idle == [pc |-> "idle"]

\* What a page run ends with: st.success or st.error and its text.
NothingShown == [level |-> "none", text |-> ""]
UploadStored == [level |-> "success", text |-> "Document uploaded and stored"]
UploadNoText == [level |-> "error", text |-> "Could not extract text from the document"]
AnalysisSaved == [level |-> "success", text |-> "Document analysis completed and saved!"]
DeleteSucceeded == [level |-> "success", text |-> "Document deleted successfully!"]
DeleteFailed == [level |-> "error", text |-> "Failed to delete document"]

StoreInit ==
    /\ docs = [id \in {} |-> Null]
    /\ next_id = 1
    /\ session = [s \in Sessions |-> Idle]
    /\ uploaded = [id \in {} |-> Null]
    /\ last_run = [id \in {} |-> Null]
    /\ shown = NothingShown

FnOff ==
    /\ fn_pc = "off"
    /\ fn_in = Null
    /\ fn_out = Null

\* f restricted to the keys in S
Restrict(f, S) == [k \in DOMAIN f \cap S |-> f[k]]

(***************************************************************************)
(* The pages of app.py                                                     *)
(***************************************************************************)

\* Document Upload page: extract the text, and store the document unless
\* the text is empty.
Upload(f, upload_date) ==
    LET extracted_text == extract_text(f).returned
    IN  /\ next_id <= MaxIds
        /\ IF Strip(extracted_text) = << >>
           THEN /\ shown' = UploadNoText
                /\ UNCHANGED << docs, next_id, uploaded >>
           ELSE /\ shown' = UploadStored
                /\ docs' = store_document(docs, next_id, f.name, extracted_text,
                                          UploadedStatus, f.type, upload_date)
                /\ next_id' = next_id + 1
                /\ uploaded' = (next_id :> [ filename    |-> f.name,
                                             file_type   |-> f.type,
                                             content     |-> extracted_text,
                                             upload_date |-> upload_date,
                                             size        |-> f.size ]) @@ uploaded
        /\ UNCHANGED << session, last_run, fn_vars >>

\* The specification of the racing runs keeps, in fn_out, a history of what
\* every run read and of the writes that replaced an analysis the writing
\* run had not read.
RaceHistory == fn_pc = "race"

\* Document Analysis page, Analyze button: the run reads the documents,
\* takes the selected one, whose tuple holds its analysis column, and calls
\* the AI service.
AnalyzeClick(s, mode, doc_id, analysis_type, complexity_level, advanced_options) ==
    /\ session[s].pc = "idle"
    /\ doc_id \in available_docs(docs, mode)
    /\ session' = [session EXCEPT ![s] =
            [ pc               |-> "calling",
              doc_id           |-> doc_id,
              content          |-> docs[doc_id].content,
              analysis_type    |-> analysis_type,
              complexity_level |-> complexity_level,
              advanced_options |-> advanced_options ]]
    /\ fn_out' = IF RaceHistory
                 THEN [fn_out EXCEPT !.read[s] = docs[doc_id].analysis]
                 ELSE fn_out
    /\ UNCHANGED << docs, next_id, uploaded, last_run, shown, fn_pc, fn_in >>

\* The AI service answers: analyze_document returns, the handler marks the
\* result as analyzed and writes it to the document's row.
AnalysisReturns(s, response, analysis_date) ==
    LET run == session[s]
        analysis_result ==
            MarkAnalyzed(AnalyzerResults[run.content, run.analysis_type,
                                         run.complexity_level, response],
                         analysis_date, run.analysis_type, run.complexity_level,
                         run.advanced_options)
    IN  /\ run.pc = "calling"
        /\ docs' = UpdateAnalysis(docs, run.doc_id, analysis_result)
        /\ session' = [session EXCEPT ![s] = Idle]
        /\ last_run' =
              IF run.doc_id \in DOMAIN docs
              THEN (run.doc_id :> [ response         |-> response,
                                    content          |-> run.content,
                                    analysis_type    |-> run.analysis_type,
                                    complexity_level |-> run.complexity_level,
                                    advanced_options |-> run.advanced_options,
                                    analysis_date    |-> analysis_date,
                                    replaced_key_points |-> KeyPointsOf(docs[run.doc_id]) ])
                   @@ last_run
              ELSE last_run
        /\ shown' = AnalysisSaved
        /\ fn_out' =
              IF RaceHistory
              THEN [ read  |-> [fn_out.read EXCEPT ![s] = Null],
                     raced |-> IF run.doc_id \notin DOMAIN docs THEN fn_out.raced
                               ELSE IF fn_out.read[s] # docs[run.doc_id].analysis
                               THEN (run.doc_id :> docs[run.doc_id].analysis) @@ fn_out.raced
                               ELSE Restrict(fn_out.raced, DOMAIN fn_out.raced \ {run.doc_id}) ]
              ELSE fn_out
        /\ UNCHANGED << next_id, uploaded, fn_pc, fn_in >>

\* Document History page, Delete button: the message follows what
\* delete_document returned.
Delete(doc_id) ==
    /\ docs' = delete_document(docs, doc_id).table
    /\ shown' = IF delete_document(docs, doc_id).deleted THEN DeleteSucceeded
                ELSE DeleteFailed
    /\ uploaded' = Restrict(uploaded, DOMAIN docs')
    /\ last_run' = Restrict(last_run, DOMAIN docs')
    /\ UNCHANGED << next_id, session, fn_vars >>

Init == StoreInit /\ FnOff

Next ==
    \/ \E f \in UploadFiles, upload_date \in UploadTimes : Upload(f, upload_date)
    \/ \E s \in Sessions, mode \in Modes, doc_id \in 1..MaxIds,
          analysis_type \in AnalysisTypes, complexity_level \in ComplexityLevels,
          advanced_options \in AdvancedOptions :
            AnalyzeClick(s, mode, doc_id, analysis_type, complexity_level, advanced_options)
    \/ \E s \in Sessions, response \in Responses, analysis_date \in AnalysisTimes :
            AnalysisReturns(s, response, analysis_date)
    \/ \E doc_id \in 1..MaxIds : Delete(doc_id)

Spec == Init /\ [][Next]_vars

(***************************************************************************)
(* The functions of document_processor.py, applied to every file of Files  *)
(* and every text of Texts.                                                *)
(***************************************************************************)

TextInit ==
    /\ StoreInit
    /\ fn_pc = "start"
    /\ fn_in \in {[what |-> "file", file |-> f] : f \in Files}
                 \cup {[what |-> "text", text |-> t] : t \in Texts}
    /\ fn_out = Null

ExtractText ==
    /\ fn_pc = "start"
    /\ fn_in.what = "file"
    /\ fn_pc' = "extracted"
    /\ fn_out' = extract_text(fn_in.file)
    /\ UNCHANGED << docs, next_id, session, uploaded, last_run, shown, fn_in >>

ValidateFile ==
    /\ fn_pc = "start"
    /\ fn_in.what = "file"
    /\ fn_pc' = "validated"
    /\ fn_out' = validate_file(fn_in.file)
    /\ UNCHANGED << docs, next_id, session, uploaded, last_run, shown, fn_in >>

PreprocessText ==
    /\ fn_pc = "start"
    /\ fn_in.what = "text"
    /\ fn_pc' = "once"
    /\ fn_out' = [once |-> preprocess_text(fn_in.text)]
    /\ UNCHANGED << docs, next_id, session, uploaded, last_run, shown, fn_in >>

PreprocessAgain ==
    /\ fn_pc = "once"
    /\ fn_pc' = "twice"
    /\ fn_out' = [once |-> fn_out.once, twice |-> preprocess_text(fn_out.once)]
    /\ UNCHANGED << docs, next_id, session, uploaded, last_run, shown, fn_in >>

TextNext == ExtractText \/ ValidateFile \/ PreprocessText \/ PreprocessAgain

SpecText == TextInit /\ [][TextNext]_vars

(***************************************************************************)
(* The Structurer of gemini_analyzer.py, applied to every reply of Replies *)
(* about every document text of Originals.                                 *)
(***************************************************************************)

ParseInit ==
    /\ StoreInit
    /\ fn_pc = "start"
    /\ fn_in \in {[what |-> "reply", reply |-> r, original |-> t] :
                    r \in Replies, t \in Originals}
    /\ fn_out = Null

ParseResponse ==
    /\ fn_pc = "start"
    /\ fn_pc' = "parsed"
    /\ fn_out' = [ raised |-> _parse_analysis_response(fn_in.reply, fn_in.original).raised,
                   result |-> _parse_analysis_response(fn_in.reply, fn_in.original).result,
                   current_section |-> current_section_trace(fn_in.reply) ]
    /\ UNCHANGED << docs, next_id, session, uploaded, last_run, shown, fn_in >>

ParseNext == ParseResponse

SpecParse == ParseInit /\ [][ParseNext]_vars

(***************************************************************************)
(* The Fallback Estimator of gemini_analyzer.py, applied to every document *)
(* text of DocTexts.                                                       *)
(***************************************************************************)

EstimateInit ==
    /\ StoreInit
    /\ fn_pc = "start"
    /\ fn_in \in {[what |-> "document", text |-> t] : t \in DocTexts}
    /\ fn_out = Null

GenerateBasicInsights ==
    /\ fn_pc = "start"
    /\ fn_pc' = "estimated"
    /\ fn_out' = _generate_basic_insights(fn_in.text)
    /\ UNCHANGED << docs, next_id, session, uploaded, last_run, shown, fn_in >>

EstimateNext == GenerateBasicInsights

SpecEstimate == EstimateInit /\ [][EstimateNext]_vars

(***************************************************************************)
(* analyze_document of gemini_analyzer.py, step by step: the prompt is     *)
(* built, the AI service answers, the reply is structured.                 *)
(***************************************************************************)

PromptResponses == {ApiNone, ApiText(R_Full), ApiText(R_SummaryOnly)}

PromptInit ==
    /\ StoreInit
    /\ fn_pc = "start"
    /\ fn_in \in {[ what |-> "analysis", text |-> t, analysis_type |-> a,
                    complexity_level |-> c ] :
                    t \in PromptTexts, a \in AllAnalysisTypes, c \in AllComplexityLevels}
    /\ fn_out = Null

CreateAnalysisPrompt ==
    /\ fn_pc = "start"
    /\ fn_pc' = "prompted"
    /\ fn_out' = [prompt |-> _create_analysis_prompt(fn_in.text, fn_in.analysis_type,
                                                      fn_in.complexity_level)]
    /\ UNCHANGED << docs, next_id, session, uploaded, last_run, shown, fn_in >>

GenerateContent(response) ==
    /\ fn_pc = "prompted"
    /\ fn_pc' = "analyzed"
    /\ fn_out' = [ prompt   |-> fn_out.prompt,
                   response |-> response,
                   result   |-> analyze_document(fn_in.text, fn_in.analysis_type,
                                                 fn_in.complexity_level, response) ]
    /\ UNCHANGED << docs, next_id, session, uploaded, last_run, shown, fn_in >>

PromptNext ==
    \/ CreateAnalysisPrompt
    \/ \E response \in PromptResponses : GenerateContent(response)

SpecPrompt == PromptInit /\ [][PromptNext]_vars

(***************************************************************************)
(* Properties of the store (specification Spec)                            *)
(***************************************************************************)

\* The dict stored in a row's analysis column.
StoredAnalysis(d) == json_loads(docs[d].analysis)

\* The AI call raised, or its reply was missing or empty.
CallFailed(response) ==
    response.kind \in {"raise", "none"} \/ response.text = << >>

\* Session s finishes an analysis run in this step.
RunEnds(s) == session[s].pc = "calling" /\ session'[s].pc = "idle"

\* C1: when an analysis run on a stored document fails (the AI call raises,
\* or the reply is missing or empty), the document's stored analysis is
\* exactly what it was before the run.
C1_FailedRunKeepsAnalysis ==
    [][\A s \in Sessions :
          LET d == session[s].doc_id
          IN  (RunEnds(s) /\ d \in DOMAIN docs /\ CallFailed(last_run'[d].response))
                  => docs'[d].analysis = docs[d].analysis]_vars

\* The reply of a run has no line with a Key Points header (or there is no
\* reply at all).
OmitsKeyPoints(response) ==
    \/ CallFailed(response)
    \/ LET lines == SplitOn(response.text, LF)
       IN  \A i \in 1..Len(lines) : ~IsHeaderOf(Strip(lines[i]), "key_points")

AnalysisFields ==
    {"summary", "key_points", "insights", "simplified_explanation", "recommendations"}

\* C2: every field of a stored analysis is the one the latest run on the
\* document produced, and when that run's reply has no Key Points section
\* the stored key_points is empty, whatever the run before it had stored.
C2_ReanalysisReplacesWholesale ==
    \A d \in DOMAIN docs \cap DOMAIN last_run :
        LET run    == last_run[d]
            latest == AnalyzerResults[run.content, run.analysis_type,
                                      run.complexity_level, run.response]
        IN  /\ \A k \in AnalysisFields :
                  /\ k \in DOMAIN StoredAnalysis(d) <=> k \in DOMAIN latest
                  /\ k \in DOMAIN latest => StoredAnalysis(d)[k] = latest[k]
            /\ StoredAnalysis(d)["analysis_date"] = run.analysis_date
            /\ OmitsKeyPoints(run.response) => StoredAnalysis(d)["key_points"] = << >>

\* A document whose key points were replaced by a run whose reply had no
\* Key Points section.
C2_Witness ==
    \E d \in DOMAIN docs \cap DOMAIN last_run :
        /\ last_run[d].replaced_key_points # << >>
        /\ last_run[d].response = ApiText(R_SummaryOnly)
        /\ StoredAnalysis(d)["key_points"] = << >>

\* C3: a stored document has analyzed = true exactly when an analysis run on
\* it has completed (error-flagged or not); until then its analysis is the
\* one it was uploaded with, {status: "uploaded", analyzed: false}.
C3_AnalyzedIffRunCompleted ==
    \A d \in DOMAIN docs :
        /\ IsAnalyzed(docs[d]) <=> d \in DOMAIN last_run
        /\ d \notin DOMAIN last_run => StoredAnalysis(d) = UploadedStatus

\* A document whose only completed run failed, and one still pending.
C3_Witness ==
    \E d, e \in DOMAIN docs :
        /\ d \in DOMAIN last_run
        /\ CallFailed(last_run[d].response)
        /\ IsAnalyzed(docs[d])
        /\ e \notin DOMAIN last_run
        /\ ~IsAnalyzed(docs[e])

\* C4: reading a stored document back by id yields the filename, media type,
\* raw text and upload timestamp it was stored with, whatever analysis runs
\* and whatever stores and deletes of other documents have happened since.
C4_StoredFieldsUnchanged ==
    \A d \in DOMAIN docs :
        LET row == get_document_by_id(docs, d)
        IN  /\ row.filename = uploaded[d].filename
            /\ row.file_type = uploaded[d].file_type
            /\ row.content = uploaded[d].content
            /\ row.upload_date = uploaded[d].upload_date

\* A document that has been analyzed, after an earlier document was deleted.
C4_Witness ==
    \E d \in DOMAIN docs :
        /\ d \in DOMAIN last_run
        /\ \E e \in 1..(d - 1) : e \notin DOMAIN docs
        /\ get_document_by_id(docs, d).content = uploaded[d].content

\* C6: no document record exists for an upload whose size exceeds the 50 MB
\* ceiling or whose media type is outside the supported set.
C6_OversizeUploadRejected ==
    \A d \in DOMAIN docs :
        /\ uploaded[d].size <= max_size_mb * BytesPerMB
        /\ uploaded[d].file_type \in supported_types

(***************************************************************************)
(* Properties of the extractor and the normalizer (specification SpecText) *)
(***************************************************************************)

\* extract_text has been applied to the file fn_in.file.
HasExtracted == fn_pc = "extracted"

\* C5: for an upload whose declared media type is not a supported one,
\* extract_text runs no format extractor and reads no byte of the upload
\* (it raises the unsupported-type error and returns the empty text), and
\* validate_file rejects it.
C5_UnsupportedTypeReadsNothing ==
    /\ (HasExtracted /\ fn_in.file.type \notin supported_types)
          => /\ fn_out.extractor = "none"
             /\ fn_out.bytes_read = 0
             /\ fn_out.raised = "UnsupportedFormat"
             /\ fn_out.returned = << >>
    /\ (fn_pc = "validated" /\ fn_in.file.type \notin supported_types)
          => ~fn_out.valid

\* An image/png upload, extracted with no byte read.
C5_Witness ==
    /\ HasExtracted
    /\ fn_in.file = ImagePng
    /\ fn_out.bytes_read = 0
    /\ fn_out.raised = "UnsupportedFormat"

\* C7: a failed extraction (unsupported type, or a parse error) reaches the
\* caller as something other than the empty text that a successful
\* extraction of a file without text returns.
C7_FailuresDistinguishable ==
    (HasExtracted /\ fn_out.raised \in {"UnsupportedFormat", "ExtractionFailure"})
        => fn_out.returned # << >>

\* C8: extraction of a plain-text upload never raises; it returns the
\* trimmed decoding of the bytes in the first encoding of the list that
\* accepts them (UTF-8 when they are valid UTF-8, else Latin-1, which
\* accepts every byte), and holds a replacement character only when every
\* encoding of the list rejects the bytes.
C8_PlainTextNeverFails ==
    (HasExtracted /\ fn_in.file.type = TXT)
        => LET data == fn_in.file.data
           IN  /\ fn_out.raised = "none"
               /\ fn_out.returned =
                    Strip(IF Utf8Valid(data) THEN Utf8Decode(data, "strict") ELSE data)
               /\ (\A i \in 1..Len(data) : data[i] < 128)
                     => fn_out.returned = Strip(data)
               /\ HasChar(fn_out.returned, REPLACEMENT_CHAR)
                     => \A i \in 1..Len(Encodings) : ~CanDecode(data, Encodings[i])

\* Bytes that are not valid UTF-8, extracted as their Latin-1 characters.
C8_Witness ==
    /\ HasExtracted
    /\ fn_in.file.type = TXT
    /\ ~Utf8Valid(fn_in.file.data)
    /\ fn_out.raised = "none"
    /\ fn_out.returned = << 65, 129 >>

\* C9: preprocess_text is idempotent: applied to its own output it returns
\* that output.
C9_NormalizerIdempotent ==
    fn_pc = "twice" => fn_out.twice = fn_out.once

(***************************************************************************)
(* Properties of the Structurer (specification SpecParse)                  *)
(***************************************************************************)

\* The lines of the reply being parsed, stripped.
ReplyLinesIn ==
    LET lines == SplitOn(fn_in.reply, LF)
    IN  [i \in 1..Len(lines) |-> Strip(lines[i])]

HasLine(line) == \E i \in 1..Len(ReplyLinesIn) : ReplyLinesIn[i] = line

\* The trimmed non-empty comma-separated pieces of a line.
CommaPieces(line) == StripNonEmpty(SplitOn(line, 44))

\* C10 as stated: a reply that contains the line "Legal Insights: complexity
\* 7, area Contract Law, Tort" yields insights with complexity_score 7 and
\* legal_areas the trimmed comma-separated pieces of that line.
C10_FixtureLineSetsInsights ==
    (fn_pc = "parsed" /\ HasLine(L_InsightsFixture))
        => /\ ~fn_out.raised
           /\ "complexity_score" \in DOMAIN fn_out.result.insights
           /\ fn_out.result.insights["complexity_score"] = 7
           /\ "legal_areas" \in DOMAIN fn_out.result.insights
           /\ fn_out.result.insights["legal_areas"] = CommaPieces(L_InsightsFixture)

\* The reply has exactly one insights header line, and the line after it is
\* "complexity 7, area Contract Law, Tort", itself followed by a header line
\* or by the end of the reply.
InsightsBodyAlone ==
    LET ls      == ReplyLinesIn
        headers == {i \in 1..Len(ls) : HeaderMatch(ls[i]) = "insights"}
    IN  /\ Cardinality(headers) = 1
        /\ \E k \in headers :
              /\ k + 1 <= Len(ls)
              /\ ls[k + 1] = L_InsightsBody
              /\ k + 2 <= Len(ls) => HeaderMatch(ls[k + 2]) # "none"

\* Whether a line fires one of the three insight signals.
HasSignal(line) ==
    \/ ComplexitySignal(line)
    \/ Contains(Lower(line), W_area)
    \/ Contains(Lower(line), W_sentiment)
    \/ Contains(Lower(line), W_tone)

\* No line of the reply that is not a header line fires a signal.
NoSignalOnContentLines ==
    \A i \in 1..Len(ReplyLinesIn) :
        HeaderMatch(ReplyLinesIn[i]) = "none" => ~HasSignal(ReplyLinesIn[i])

\* C10, amended: the line "Legal Insights: complexity 7, area Contract Law,
\* Tort" is a section header and sets no insight (with no other line
\* carrying a signal, insights are the Fallback Estimator's); the signals
\* count on a content line: when the only insights header is followed by
\* the single content line "complexity 7, area Contract Law, Tort",
\* complexity_score is 7 and legal_areas is the trimmed pieces of that line.
C10_SignalsCountOnContentLines ==
    fn_pc = "parsed" =>
        /\ (HasLine(L_InsightsFixture) /\ NoSignalOnContentLines)
              => /\ ~fn_out.raised
                 /\ fn_out.result.insights = _generate_basic_insights(fn_in.original)
        /\ InsightsBodyAlone
              => /\ ~fn_out.raised
                 /\ DOMAIN fn_out.result.insights = {"complexity_score", "legal_areas"}
                 /\ fn_out.result.insights["complexity_score"] = 7
                 /\ fn_out.result.insights["legal_areas"] = CommaPieces(L_InsightsBody)

\* The fixture line as a header, followed by the signals on a content line.
C10_Witness ==
    /\ fn_pc = "parsed"
    /\ fn_in.reply = Join(<< L_InsightsFixture, L_InsightsBody >>, LF)
    /\ fn_out.result.insights["complexity_score"] = 7
    /\ Len(fn_out.result.insights["legal_areas"]) = 3

\* The Structurer has been applied to the reply fn_in.reply.
HasParsed == fn_pc = "parsed"

\* No line of the reply opens an insights section.
NoInsightsHeader ==
    \A i \in 1..Len(ReplyLinesIn) : HeaderMatch(ReplyLinesIn[i]) # "insights"

\* The keys the Structurer reads from the reply.
ParsedInsightKeys == {"complexity_score", "legal_areas", "sentiment"}

\* C11: when the reply yields no insight (no insights section, an empty one,
\* or one without a complexity, area or tone signal) the returned insights
\* are the Fallback Estimator's over the original document text, whose
\* character_count is the length of that text and not of the reply; the
\* insights of a returned record are never empty: they are the estimator's,
\* or made of keys read from the reply.
C11_FallbackOverOriginal ==
    HasParsed =>
        /\ ~fn_out.raised =>
              /\ DOMAIN fn_out.result.insights # {}
              /\ \/ fn_out.result.insights = _generate_basic_insights(fn_in.original)
                 \/ DOMAIN fn_out.result.insights \subseteq ParsedInsightKeys
        /\ (NoInsightsHeader \/ NoSignalOnContentLines) =>
              /\ ~fn_out.raised
              /\ fn_out.result.insights = _generate_basic_insights(fn_in.original)
              /\ fn_out.result.insights.character_count = Len(fn_in.original)
              /\ fn_out.result.insights.word_count =
                    (IF fn_in.original = T_Lease THEN 1 ELSE 0)

\* An insights section without a signal, about the document "Lease".
C11_Witness ==
    /\ HasParsed
    /\ fn_in.reply = Join(<< L_InsightsHeader, L_SummaryBody >>, LF)
    /\ fn_in.original = T_Lease
    /\ fn_out.result.insights.word_count = 1
    /\ fn_out.result.insights.character_count = 5

\* No line of the reply opens the given section.
NoHeaderOf(section) ==
    \A i \in 1..Len(ReplyLinesIn) : HeaderMatch(ReplyLinesIn[i]) # section

\* C12: the Structurer returns a record for every reply, without raising,
\* and a section no header line of the reply opens keeps its default.
C12_StructurerNeverFails ==
    HasParsed =>
        /\ ~fn_out.raised
        /\ NoHeaderOf("summary") => fn_out.result.summary = << >>
        /\ NoHeaderOf("key_points") => fn_out.result.key_points = << >>
        /\ NoHeaderOf("simplified") => fn_out.result.simplified_explanation = << >>
        /\ NoHeaderOf("recommendations") => fn_out.result.recommendations = << >>

\* C14: the complexity_score of a returned record, when present, is an
\* integer from 1 to 10.
C14_ComplexityScoreInRange ==
    (HasParsed /\ ~fn_out.raised /\ "complexity_score" \in DOMAIN fn_out.result.insights)
        => fn_out.result.insights.complexity_score \in 1..10

\* The sections a header synonym of which the line contains, as indices of
\* the priority order.
SectionsNamedIn(line) ==
    {k \in 1..Len(Sections) : \E h \in Headers(Sections[k]) : Contains(Upper(line), h)}

\* C18: after every line of the reply that contains synonyms of more than
\* one section, the current-section pointer is the first of these sections
\* in the order summary, key_points, insights, simplified, recommendations.
C18_HighestPriorityHeaderWins ==
    HasParsed =>
        \A i \in 1..Len(ReplyLinesIn) :
            LET named == SectionsNamedIn(ReplyLinesIn[i])
            IN  Cardinality(named) > 1 =>
                  /\ i <= Len(fn_out.current_section)
                  /\ fn_out.current_section[i] =
                        Sections[CHOOSE k \in named : \A j \in named : k <= j]

\* The reply is an insights header line followed only by content lines; the
\* buffered lines are the non-blank ones among them.
InsightsSectionOnly ==
    /\ Len(ReplyLinesIn) >= 1
    /\ HeaderMatch(ReplyLinesIn[1]) = "insights"
    /\ \A i \in 2..Len(ReplyLinesIn) :
          /\ HeaderMatch(ReplyLinesIn[i]) = "none"
          /\ ReplyLinesIn[i] # << >>
          /\ ReplyLinesIn[i][1] # 35

\* The last line of the reply, after the first, that satisfies the test.
LastLineWith(Test(_)) ==
    LET hits == {i \in 2..Len(ReplyLinesIn) : Test(ReplyLinesIn[i])}
    IN  ReplyLinesIn[CHOOSE i \in hits : \A j \in hits : i >= j]

AreaSignal(line) == Contains(Lower(line), W_area)

ToneSignal(line) ==
    Contains(Lower(line), W_sentiment) \/ Contains(Lower(line), W_tone)

\* The trimmed text after the last colon of a line that has one.
AfterLastColon(line) ==
    LET colons == {i \in 1..Len(line) : line[i] = 58}
    IN  Strip(SubSeq(line, (CHOOSE i \in colons : \A j \in colons : i >= j) + 1, Len(line)))

\* C19: of the lines buffered for one insights section, the last one with a
\* complexity signal sets complexity_score (the value of its first digit
\* character), the last one with an area signal sets legal_areas, and the
\* last one with a tone signal sets sentiment (the trimmed text after its
\* last colon, "Neutral" without a colon).
C19_LastMatchingLineWins ==
    (HasParsed /\ InsightsSectionOnly) =>
        /\ (\E i \in 2..Len(ReplyLinesIn) : ComplexitySignal(ReplyLinesIn[i])) =>
              /\ ~fn_out.raised
              /\ "complexity_score" \in DOMAIN fn_out.result.insights
              /\ fn_out.result.insights.complexity_score =
                    FirstDigit(LastLineWith(ComplexitySignal)) - 48
        /\ (\E i \in 2..Len(ReplyLinesIn) : AreaSignal(ReplyLinesIn[i])) =>
              /\ ~fn_out.raised
              /\ "legal_areas" \in DOMAIN fn_out.result.insights
              /\ fn_out.result.insights.legal_areas =
                    CommaPieces(LastLineWith(AreaSignal))
        /\ (\E i \in 2..Len(ReplyLinesIn) : ToneSignal(ReplyLinesIn[i])) =>
              /\ ~fn_out.raised
              /\ "sentiment" \in DOMAIN fn_out.result.insights
              /\ fn_out.result.insights.sentiment =
                    (IF HasChar(LastLineWith(ToneSignal), 58)
                     THEN AfterLastColon(LastLineWith(ToneSignal))
                     ELSE W_Neutral)

\* The non-blank, non-header lines between line k of the reply and the next
\* header line (or the end of the reply).
RECURSIVE LinesAfter(_)
LinesAfter(k) ==
    IF k + 1 > Len(ReplyLinesIn) \/ HeaderMatch(ReplyLinesIn[k + 1]) # "none" THEN << >>
    ELSE (IF ReplyLinesIn[k + 1] = << >> THEN << >> ELSE << ReplyLinesIn[k + 1] >>)
         \o LinesAfter(k + 1)

\* C20: when one line of the reply opens the summary section, the stored
\* summary is the trimmed newline-join of every non-blank, non-header line
\* between that line and the next header line or the end of the reply.
C20_SectionHoldsEveryLine ==
    HasParsed =>
        \A k \in 1..Len(ReplyLinesIn) :
            (/\ HeaderMatch(ReplyLinesIn[k]) = "summary"
             /\ \A j \in 1..Len(ReplyLinesIn) :
                   HeaderMatch(ReplyLinesIn[j]) = "summary" => j = k)
                => /\ ~fn_out.raised
                   /\ fn_out.result.summary = Strip(Join(LinesAfter(k), LF))

(***************************************************************************)
(* Properties of the Fallback Estimator (specification SpecEstimate)       *)
(***************************************************************************)

\* The number a string of decimal digits writes.
RECURSIVE DecimalValue(_)
DecimalValue(digits) ==
    IF digits = << >> THEN 0
    ELSE 10 * DecimalValue(SubSeq(digits, 1, Len(digits) - 1)) + (digits[Len(digits)] - 48)

\* The whitespace-separated tokens of a text, counted by their first
\* characters.
TokenCount(text) ==
    Cardinality({i \in 1..Len(text) :
                    /\ ~IsSpace(text[i])
                    /\ i = 1 \/ IsSpace(text[i - 1])})

UppercaseCount(text) == Cardinality({i \in 1..Len(text) : text[i] \in 65..90})

\* "1 minutes"
T_OneMinutes == Str(<< "1", " ", "m", "i", "n", "u", "t", "e", "s" >>)

\* C13: the Fallback Estimator returns word_count = the number of
\* whitespace-separated tokens, character_count = the length of the text,
\* complexity_score = min(10, max(1, word_count div 500 + uppercase div 100)),
\* which lies in 1..10, complexity_level Low up to 3, Medium up to 7, else
\* High, and estimated_reading_time = word_count div 200 + 1 followed by
\* " minutes"; a text without words gets score 1, Low and "1 minutes".
C13_EstimatorFormula ==
    fn_pc = "estimated" =>
        LET text    == fn_in.text
            words   == TokenCount(text)
            raw     == (words \div 500) + (UppercaseCount(text) \div 100)
            score   == IF raw < 1 THEN 1 ELSE IF raw > 10 THEN 10 ELSE raw
            reading == fn_out.estimated_reading_time
        IN  /\ fn_out.word_count = words
            /\ fn_out.character_count = Len(text)
            /\ fn_out.complexity_score = score
            /\ fn_out.complexity_score \in 1..10
            /\ fn_out.complexity_level =
                  (IF score <= 3 THEN "Low" ELSE IF score <= 7 THEN "Medium" ELSE "High")
            /\ Len(reading) > 8
            /\ SubSeq(reading, Len(reading) - 7, Len(reading)) = W_minutes
            /\ \A i \in 1..(Len(reading) - 8) : reading[i] \in 48..57
            /\ DecimalValue(SubSeq(reading, 1, Len(reading) - 8)) = (words \div 200) + 1
            /\ words = 0 =>
                  /\ fn_out.complexity_score = 1
                  /\ fn_out.complexity_level = "Low"
                  /\ fn_out.estimated_reading_time = T_OneMinutes

\* A text of 1100 uppercase letters: the sum 11 is cut to the score 10.
C13_Witness ==
    /\ fn_pc = "estimated"
    /\ UppercaseCount(fn_in.text) = 1100
    /\ fn_out.word_count = 1
    /\ fn_out.complexity_score = 10
    /\ fn_out.complexity_level = "High"

(***************************************************************************)
(* Further properties of the store (specification Spec)                    *)
(***************************************************************************)

\* The reply of the AI service was missing or empty.
ReplyMissing(response) ==
    response.kind = "none" \/ (response.kind = "text" /\ response.text = << >>)

\* C15: an analysis attempt whose reply was missing or empty is a failure
\* (its record carries an error) and is not persisted as a completed
\* analysis: no stored record of such an attempt is flagged analyzed.
C15_EmptyReplyIsNotACompletedAnalysis ==
    \A d \in DOMAIN docs \cap DOMAIN last_run :
        (ReplyMissing(last_run[d].response) /\ "error" \in DOMAIN StoredAnalysis(d))
            => ~IsAnalyzed(docs[d])

\* The file a stored document was uploaded from.
UploadedFile(d) == CHOOSE f \in UploadFiles : f.name = uploaded[d].filename

\* C17: the content stored for a document, and the content an analysis run
\* sends to the analyzer, is the normalized extracted text
\* preprocess_text(extract_text(file)).
C17_StoredContentIsNormalized ==
    /\ \A d \in DOMAIN docs :
          docs[d].content = preprocess_text(extract_text(UploadedFile(d)).returned)
    /\ \A s \in Sessions :
          (session[s].pc = "calling" /\ session[s].doc_id \in DOMAIN docs) =>
              session[s].content =
                  preprocess_text(extract_text(UploadedFile(session[s].doc_id)).returned)

(***************************************************************************)
(* Properties of the Request Builder (specification SpecPrompt)            *)
(***************************************************************************)

\* The keys of the records analyze_document returns.
AnalyzerKeys ==
    { "summary", "key_points", "insights", "simplified_explanation",
      "recommendations", "raw_analysis", "error" }

\* What the analysis of the text fn_in.text shows of its truncation: a
\* prompt other than the one built from the text already cut to the limit,
\* or a field of the result beyond those of every record.
TruncationSurfaced ==
    \/ fn_out.prompt # _create_analysis_prompt(Prefix(fn_in.text, TextLimit),
                                               fn_in.analysis_type,
                                               fn_in.complexity_level)
    \/ \E k \in DOMAIN fn_out.result : k \notin AnalyzerKeys

\* C16: the prompt holds the first 8000 characters of the document text and
\* no more, and the analysis of a text longer than 8000 characters shows, in
\* the prompt or in the record returned, that it is partial.
C16_TruncationSurfaced ==
    fn_pc = "analyzed" =>
        /\ fn_out.prompt.document_text = Prefix(fn_in.text, TextLimit)
        /\ Len(fn_out.prompt.document_text) <= TextLimit
        /\ Len(fn_in.text) > TextLimit => TruncationSurfaced

(***************************************************************************)
(* Properties of the store: deletion, the analyzed flag, stored content    *)
(* and ids (specification Spec)                                            *)
(***************************************************************************)

\* C21: deleting an id removes exactly that document and shows success if
\* and only if the document existed; deleting an absent id shows the failure
\* message and changes nothing; every other document keeps all its fields,
\* its analysis included.
C21_DeleteRemovesExactlyThatDocument ==
    [][\A doc_id \in 1..MaxIds :
          Delete(doc_id) =>
              /\ (shown' = DeleteSucceeded) <=> (doc_id \in DOMAIN docs)
              /\ (shown' = DeleteFailed) <=> (doc_id \notin DOMAIN docs)
              /\ DOMAIN docs' = DOMAIN docs \ {doc_id}
              /\ \A d \in DOMAIN docs' : docs'[d] = docs[d]
              /\ (doc_id \notin DOMAIN docs) => (docs' = docs)]_vars

\* The first document has just been deleted and the second, which had been
\* analyzed, is the only one left.
C21_Witness ==
    /\ shown = DeleteSucceeded
    /\ DOMAIN docs = {2}
    /\ IsAnalyzed(docs[2])

\* A delete of an id that is not there has just failed next to a document.
C21_FailedDeleteWitness ==
    /\ shown = DeleteFailed
    /\ DOMAIN docs # {}

\* A row whose analysis is absent, or has analyzed false or missing.
Pending(row) ==
    \/ row.analysis = Null
    \/ "analyzed" \notin DOMAIN json_loads(row.analysis)
    \/ json_loads(row.analysis)["analyzed"] = FALSE

\* C22: the analyzed flag is monotonic: once a run has written analyzed = true
\* to a document, no later step returns it to false while the document
\* exists, so the document never reappears in the New Analysis list; that
\* list holds exactly the documents whose analysis is absent or has analyzed
\* false or missing, which are the documents no run has written to.
C22_AnalyzedFlagIsMonotonic ==
    [][/\ \A d \in DOMAIN docs \cap DOMAIN docs' :
              IsAnalyzed(docs[d]) =>
                  /\ IsAnalyzed(docs'[d])
                  /\ d \notin available_docs(docs', "new")
       /\ available_docs(docs', "new") = {d \in DOMAIN docs' : Pending(docs'[d])}
       /\ available_docs(docs', "new") = DOMAIN docs' \ DOMAIN last_run']_vars

\* A document analyzed successfully has been analyzed again by a run whose
\* AI call failed, next to a document still in the New Analysis list.
C22_Witness ==
    \E d \in DOMAIN last_run, e \in DOMAIN docs :
        /\ last_run[d].response \in {ApiRaises, ApiNone}
        /\ last_run[d].replaced_key_points # << >>
        /\ d \notin available_docs(docs, "new")
        /\ e \in available_docs(docs, "new")

\* An upload whose extraction yields no text: an unsupported type, an
\* extraction error or a file without text.
YieldsNoText(f) == Strip(extract_text(f).returned) = << >>

\* C23: every stored document has content that is not empty and has no
\* whitespace at either end; an upload whose extraction yields empty text
\* creates no record.
C23_StoredContentIsTrimmedAndNonEmpty ==
    [][/\ \A d \in DOMAIN docs' :
              /\ docs'[d].content # << >>
              /\ ~IsSpace(docs'[d].content[1])
              /\ ~IsSpace(docs'[d].content[Len(docs'[d].content)])
       /\ \A f \in UploadFiles, upload_date \in UploadTimes :
              (Upload(f, upload_date) /\ YieldsNoText(f)) =>
                  (docs' = docs /\ next_id' = next_id)]_vars

\* The PDF whose pages end in a newline is stored trimmed, and the upload
\* after it, which yielded no text, has left it the only document.
C23_Witness ==
    /\ shown = UploadNoText
    /\ DOMAIN docs = {1}
    /\ next_id = 2
    /\ docs[1].content = Strip(T_Lease \o << LF >> \o T_Ab \o << LF >>)
    /\ {extract_text(f).raised : f \in {g \in UploadFiles : YieldsNoText(g)}}
           = {"UnsupportedFormat", "ExtractionFailure", "none"}

\* C24: when the document of a run has been deleted between the run's read
\* and its write, the write changes no record: the deleted document is not
\* recreated and no other document changes; the run shows the message that
\* the analysis was saved all the same.
C24_WriteAfterDeleteChangesNothing ==
    [][\A s \in Sessions :
          (RunEnds(s) /\ session[s].doc_id \notin DOMAIN docs) =>
              /\ docs' = docs
              /\ shown' = AnalysisSaved]_vars

\* A run has just shown the saved message; the first document is gone and
\* the second, the only one left, is as it was uploaded: no run wrote to it.
C24_Witness ==
    /\ shown = AnalysisSaved
    /\ DOMAIN docs = {2}
    /\ 2 \notin DOMAIN last_run
    /\ docs[2].analysis = json_dumps(UploadedStatus)
    /\ \A s \in Sessions : session[s].pc = "idle"

\* C26: the ids store_document assigns are unique over the whole history:
\* a new row gets an id above every id assigned before, and an id whose
\* document has been deleted is never given to another document, so an id
\* held from before a delete cannot come to name a different document.
C26_IdsAreNeverReused ==
    [][/\ next_id' >= next_id
       /\ DOMAIN docs \subseteq 1..(next_id - 1)
       /\ \A d \in DOMAIN docs' \ DOMAIN docs : d >= next_id /\ next_id' > d
       /\ \A d \in 1..(next_id - 1) : d \notin DOMAIN docs => d \notin DOMAIN docs'
       /\ \A s \in Sessions :
              (session[s].pc = "calling" /\ session[s].doc_id \notin DOMAIN docs)
                  => session[s].doc_id \notin DOMAIN docs']_vars

\* The first document was deleted and the upload after that, into the empty
\* table, got the id 2, while a run still holds the id 1.
C26_Witness ==
    /\ shown = UploadStored
    /\ DOMAIN docs = {2}
    /\ next_id = 3
    /\ \E s \in Sessions : session[s].pc = "calling" /\ session[s].doc_id = 1

(***************************************************************************)
(* Two sessions analyzing the same document: the store with, for every     *)
(* run, the analysis column of the row it read (fn_out.read), and, for     *)
(* every document whose last write came from a run that had read the row   *)
(* before another run wrote it, the analysis that write replaced           *)
(* (fn_out.raced).                                                         *)
(***************************************************************************)

\* The number of documents uploaded while the runs race.
MaxRaceIds == 1

RaceFiles == {LeasePdf}
RaceResponses == {ApiNone, ApiText(R_Full), ApiText(R_SummaryOnly)}

RaceInit ==
    /\ StoreInit
    /\ fn_pc = "race"
    /\ fn_in = Null
    /\ fn_out = [read |-> [s \in Sessions |-> Null], raced |-> [id \in {} |-> Null]]

RaceNext ==
    \/ \E f \in RaceFiles, upload_date \in UploadTimes :
            next_id <= MaxRaceIds /\ Upload(f, upload_date)
    \/ \E s \in Sessions, mode \in Modes, doc_id \in 1..MaxIds,
          analysis_type \in AnalysisTypes, complexity_level \in ComplexityLevels,
          advanced_options \in AdvancedOptions :
            AnalyzeClick(s, mode, doc_id, analysis_type, complexity_level, advanced_options)
    \/ \E s \in Sessions, response \in RaceResponses, analysis_date \in AnalysisTimes :
            AnalysisReturns(s, response, analysis_date)
    \/ \E doc_id \in 1..MaxIds : Delete(doc_id)

SpecRace == RaceInit /\ [][RaceNext]_vars

\* The whole record the last run on document d wrote: the analyzer's result
\* for what the run read and the AI service answered, with the bookkeeping
\* fields of that run.
RecordOfLastRun(d) ==
    LET run == last_run[d]
    IN  MarkAnalyzed(AnalyzerResults[run.content, run.analysis_type,
                                     run.complexity_level, run.response],
                     run.analysis_date, run.analysis_type, run.complexity_level,
                     run.advanced_options)

\* C25: when two runs on the same document interleave, the stored analysis
\* is, after both have written, in its entirety the record of the run that
\* wrote last, never a mixture, field by field, with the record it replaced;
\* the document's content is as it was uploaded.
C25_LastWriterWinsWholesale ==
    \A d \in DOMAIN fn_out.raced \cap DOMAIN docs :
        /\ docs[d].analysis = json_dumps(RecordOfLastRun(d))
        /\ DOMAIN json_loads(docs[d].analysis) = DOMAIN RecordOfLastRun(d)
        /\ \A k \in DOMAIN RecordOfLastRun(d) :
              json_loads(docs[d].analysis)[k] = RecordOfLastRun(d)[k]
        /\ docs[d].content = uploaded[d].content

\* Both runs have written: the first wrote the full analysis, the one that
\* wrote last had read the row before that and got a reply with a summary
\* only.
C25_Witness ==
    \E d \in DOMAIN fn_out.raced \cap DOMAIN docs :
        /\ \A s \in Sessions : session[s].pc = "idle"
        /\ fn_out.raced[d] # Null
        /\ "key_points" \in DOMAIN json_loads(fn_out.raced[d])
        /\ json_loads(fn_out.raced[d])["key_points"] # << >>
        /\ last_run[d].response = ApiText(R_SummaryOnly)
        /\ KeyPointsOf(docs[d]) = << >>

(***************************************************************************)
(* The AI Response Structurer on replies with repeated headers and with    *)
(* header lines that carry text of their own.                              *)
(***************************************************************************)

\* "Summary: " and the summary text on the header's own line
L_SummaryInline ==
    Str(<< "S", "u", "m", "m", "a", "r", "y", ":", " " >>) \o L_SummaryBody
\* "In summary the rent is due"
L_InSummary ==
    Str(<< "I", "n", " ", "s", "u", "m", "m", "a", "r", "y", " ", "t", "h", "e", " ", "r", "e", "n", "t", " ", "i", "s", " ", "d", "u", "e" >>)
\* "Tone: formal"
L_ToneLine ==
    Str(<< "T", "o", "n", "e", ":", " ", "f", "o", "r", "m", "a", "l" >>)

SectionLines ==
    { L_SummaryInline, L_InSummary, L_SummaryBody, L_InsightsFixture,
      L_InsightsBody, L_ToneLine, L_ComplexitySuperscript }

\* The number of lines of a reply.
MaxSectionLines == 4

SectionReplies == {Join(ls, LF) : ls \in SeqsUpTo(SectionLines, MaxSectionLines)}

SectionsInit ==
    /\ StoreInit
    /\ fn_pc = "start"
    /\ fn_in \in {[what |-> "reply", reply |-> r, original |-> T_Lease] :
                    r \in SectionReplies}
    /\ fn_out = Null

SpecSections == SectionsInit /\ [][ParseNext]_vars

\* The strings held by the fields of the returned record, raw_analysis
\* aside; none when the Structurer raised.
FieldStrings ==
    IF fn_out.raised THEN {}
    ELSE LET r == fn_out.result
             ins == r["insights"]
         IN  {r["summary"], r["simplified_explanation"]}
             \cup {r["key_points"][i] : i \in 1..Len(r["key_points"])}
             \cup {r["recommendations"][i] : i \in 1..Len(r["recommendations"])}
             \cup (IF "legal_areas" \in DOMAIN ins
                   THEN {ins["legal_areas"][i] : i \in 1..Len(ins["legal_areas"])}
                   ELSE {})
             \cup {ins[k] : k \in DOMAIN ins \cap
                       {"sentiment", "estimated_reading_time"}}

\* The shortest synonym of a section's header: a header line with no text
\* of its own.
BareHeader(section) ==
    CHOOSE h \in Headers(section) : \A g \in Headers(section) : Len(h) <= Len(g)

\* The reply with every header line replaced by the bare header of the
\* section it opens.
WithBareHeaders ==
    Join([i \in 1..Len(ReplyLinesIn) |->
            IF HeaderMatch(ReplyLinesIn[i]) = "none" THEN ReplyLinesIn[i]
            ELSE BareHeader(HeaderMatch(ReplyLinesIn[i]))], LF)

\* C27: a line recognised as a section header contributes none of its own
\* text to any section: the record is, raw_analysis aside, the one the reply
\* gives with every header line reduced to a bare header, and no field holds
\* the text of a header line; this covers a sentence that merely contains
\* "summary" and a header with text after it on the same line.
C27_HeaderLineContributesNoText ==
    HasParsed =>
        LET bare == _parse_analysis_response(WithBareHeaders, fn_in.original)
        IN  /\ fn_out.raised = bare.raised
            /\ ~fn_out.raised =>
                  \A k \in DOMAIN fn_out.result \ {"raw_analysis"} :
                      fn_out.result[k] = bare.result[k]
            /\ \A i \in 1..Len(ReplyLinesIn) :
                  HeaderMatch(ReplyLinesIn[i]) # "none" =>
                      \A f \in FieldStrings : ~Contains(f, ReplyLinesIn[i])

\* A record returned for a reply with "Summary: Lease of a flat", a sentence
\* containing "summary" and the insights header that carries signals: the
\* summary is the one content line and the insights are the estimator's.
C27_Witness ==
    /\ HasParsed
    /\ ~fn_out.raised
    /\ HasLine(L_SummaryInline)
    /\ HasLine(L_InSummary)
    /\ HasLine(L_InsightsFixture)
    /\ fn_out.result["summary"] = L_ToneLine
    /\ "word_count" \in DOMAIN fn_out.result["insights"]

\* The lines of the reply that open the section.
Occurrences(section) ==
    {k \in 1..Len(ReplyLinesIn) : HeaderMatch(ReplyLinesIn[k]) = section}

\* The buffer of the occurrence at line k: the lines after it up to the next
\* header that are not blank and do not start with '#'.
BufferAfter(k) == SelectSeq(LinesAfter(k), LAMBDA l : l[1] # 35)

\* The occurrences of the section that have a non-empty buffer.
Filled(section) == {k \in Occurrences(section) : BufferAfter(k) # << >>}

\* The buffer of the last occurrence that has a non-empty one.
LastBuffer(section) ==
    BufferAfter(CHOOSE k \in Filled(section) : \A j \in Filled(section) : j <= k)

\* C28: when the header of a section occurs more than once, the section's
\* value comes only from the last occurrence with a non-empty buffer: the
\* summary is the trimmed join of that buffer alone (the default when no
\* occurrence has one), and the insights have complexity_score, legal_areas
\* and sentiment exactly when a line of that buffer gives the signal, so a
\* key found only in an earlier block is absent.
C28_LastFilledOccurrenceWins ==
    HasParsed =>
        /\ Cardinality(Occurrences("summary")) >= 2 =>
              /\ ~fn_out.raised
              /\ fn_out.result["summary"] =
                    IF Filled("summary") = {} THEN << >>
                    ELSE Strip(Join(LastBuffer("summary"), LF))
        /\ (Cardinality(Occurrences("insights")) >= 2 /\ Filled("insights") # {}) =>
              /\ ~fn_out.raised
              /\ LET ins == fn_out.result["insights"]
                     block == LastBuffer("insights")
                 IN  /\ "complexity_score" \in DOMAIN ins
                           <=> \E i \in 1..Len(block) : ComplexitySignal(block[i])
                     /\ "legal_areas" \in DOMAIN ins
                           <=> \E i \in 1..Len(block) : AreaSignal(block[i])
                     /\ "sentiment" \in DOMAIN ins
                           <=> \E i \in 1..Len(block) : ToneSignal(block[i])

====
